---- MODULE Spec2Model ----
(***************************************************************************)
(* Model of kern/thread/synch.c: counting semaphore, sleep lock with owner *)
(* tracking, and condition variable, each built on a spinlock (the guard)  *)
(* and a wait channel.  Every thread runs one operation at a time; pc[t]   *)
(* is its position inside the operation, stack[t] the return labels of the *)
(* calls it is nested in (cv_wait calls lock_release and lock_acquire,     *)
(* lock_release and the cv operations call lock_do_i_hold).                *)
(*                                                                         *)
(* Granularity.  sem_count, the three wait channels and the guards are     *)
(* only touched under the instance's guard, so the body of a critical      *)
(* section that touches only those is one step.  lock->free and            *)
(* lock->curr_user are read without the guard by lock_do_i_hold and        *)
(* lock_destroy, so every read and write of them is a step of its own.     *)
(* A failed KASSERT panics the kernel: halted records the assertion and    *)
(* nothing runs afterwards.                                                *)
(*                                                                         *)
(* Specifications.  Spec: every thread calls any operation at any time on  *)
(* a semaphore, or on a lock and a condition variable, with interrupts and *)
(* destroys.  SemSpec, LockSpec, CvSpec: the operations of one component   *)
(* (with fairness: SemFairSpec, LockFairSpec, CvFairSpec).  CreateSpec:    *)
(* the creates, with allocation failures, and the destroys.  BufSpec and   *)
(* ManySpec: the bounded buffer and the broadcast to many waiters, client  *)
(* programs that call the operations in a fixed order.                     *)
(***************************************************************************)
EXTENDS Naturals, Integers, FiniteSets, Sequences, TLC

\* ---- bounds ----
\* threads
NThreads == 3
\* width of sem_count (unsigned): the count wraps at 2^WordBits
WordBits == 1
\* calls of V in a run
MaxV == 2
\* calls of sem_create, lock_create and cv_create in a run
MaxCreate == 3
\* bounded buffer: the most items to move and the largest capacity
MaxItems == 3
MaxCap == 2

Threads == 1..NThreads
NoThread == 0
UINT_MAX == 2^WordBits - 1

\* the condition variables: the general runs use "cv" alone, the bounded
\* buffer uses "cv" as its not-empty and "cv2" as its not-full condition
CVs == {"cv", "cv2"}
Objs == {"sem", "lock"} \cup CVs
\* the allocations behind an instance: the struct, its name, its wchan
Parts == {"struct", "name", "wchan"}

VARIABLES
    pc,               \* pc[t]: position of thread t
    stack,            \* stack[t]: return labels of the calls t is nested in
    rv,               \* rv[t]: value lock_do_i_hold returned to t, until used
    t_in_interrupt,   \* curthread->t_in_interrupt
    sem_count,        \* sem->sem_count (unsigned, WordBits wide)
    sem_lock,         \* holder of sem->sem_lock, NoThread when free
    sem_wchan,        \* threads asleep on sem->sem_wchan
    free,             \* lock->free
    curr_user,        \* lock->curr_user, NoThread for NULL
    lock_lock,        \* holder of lock->lock_lock
    lock_wchan,       \* threads asleep on lock->lock_wchan
    control_spinlock, \* control_spinlock[c]: holder of cv->control_spinlock
    control_wchan,    \* control_wchan[c]: threads asleep on cv->control_wchan
    cv_arg,           \* cv_arg[t]: the cv argument of t's cv_wait/signal/broadcast
    live,             \* live[o]: instance o created and not destroyed
    halted,           \* "none", or the assertion the kernel panicked at
    initial_count,    \* argument of sem_create
    nV,               \* history: increments performed by V
    nP,               \* history: decrements performed by P
    cs,               \* history: cs[t] iff t is between the return of its
                      \* lock_acquire and the start of its lock_release
    heap,             \* heap[o, p]: live allocations made for part p of o
    ncreate,          \* history: calls of sem_create, lock_create, cv_create
    cpc,              \* cpc[t]: position of t in the scenario it runs
    buf,              \* bounded buffer: items in the buffer
    cap,              \* bounded buffer: capacity K
    nitems,           \* bounded buffer: items to produce and consume, N
    produced,         \* bounded buffer: items produced so far
    consumed,         \* bounded buffer: items consumed so far
    tmp               \* bounded buffer: tmp[t], the occupancy t has read

semvars == <<sem_count, sem_lock, sem_wchan, initial_count, nV, nP>>
lockvars == <<free, curr_user, lock_lock, lock_wchan, cs>>
cvvars == <<control_spinlock, control_wchan>>
memvars == <<heap, ncreate>>
scnvars == <<cpc, buf, cap, nitems, produced, consumed, tmp>>
vars == <<pc, stack, rv, t_in_interrupt, sem_count, sem_lock, sem_wchan,
          free, curr_user, lock_lock, lock_wchan, control_spinlock,
          control_wchan, cv_arg, live, halted, initial_count, nV, nP, cs,
          heap, ncreate, cpc, buf, cap, nitems, produced, consumed, tmp>>

\* ---- control helpers ----
Running == halted = "none"

Goto(t, l) == pc' = [pc EXCEPT ![t] = l]

\* call: continue at entry, come back to ret
Call(t, entry, ret) ==
    /\ pc' = [pc EXCEPT ![t] = entry]
    /\ stack' = [stack EXCEPT ![t] = <<ret>> \o @]

\* return to the caller, or to "idle" when the operation was called by
\* the client
Return(t) ==
    IF stack[t] = <<>>
    THEN /\ pc' = [pc EXCEPT ![t] = "idle"]
         /\ stack' = stack
    ELSE /\ pc' = [pc EXCEPT ![t] = Head(stack[t])]
         /\ stack' = [stack EXCEPT ![t] = Tail(@)]

Panic(what) == halted' = what

\* ---- runtime primitives (spinlock.h, wchan.h) ----
\* spinlock_acquire: busy-wait until the guard is free, then hold it
spinlock_acquire(lk, t) == lk = NoThread

\* wchan_wakeone: the sleepers left after waking w
wchan_wakeone(wc, w) == wc \ {w}

\* wchan_destroy and spinlock_cleanup are fatal on a channel with a
\* sleeper and on a guard that is held
wchan_destroy_ok(wc) == wc = {}
\* what a destroy frees: the wchan (wchan_destroy), the name and the
\* struct (kfree)
kfree_all(o) ==
    [b \in Objs \X Parts |-> IF b[1] = o /\ heap[b] > 0
                              THEN heap[b] - 1 ELSE heap[b]]

spinlock_cleanup_ok(lk) == lk = NoThread

\* the state after the instances in objs were created, the semaphore by
\* sem_create(name, c); thread NThreads may be running an interrupt handler
Constructed(c, objs) ==
    /\ initial_count = c
    /\ pc = [t \in Threads |-> "idle"]
    /\ stack = [t \in Threads |-> <<>>]
    /\ rv = [t \in Threads |-> FALSE]
    /\ t_in_interrupt \in {[t \in Threads |-> FALSE],
                           [t \in Threads |-> t = NThreads]}
    /\ sem_count = initial_count
    /\ sem_lock = NoThread
    /\ sem_wchan = {}
    /\ free = TRUE
    /\ curr_user = NoThread
    /\ lock_lock = NoThread
    /\ lock_wchan = {}
    /\ control_spinlock = [v \in CVs |-> NoThread]
    /\ control_wchan = [v \in CVs |-> {}]
    /\ cv_arg = [t \in Threads |-> "cv"]
    /\ live = [o \in Objs |-> o \in objs]
    /\ heap = [b \in Objs \X Parts |-> IF b[1] \in objs THEN 1 ELSE 0]
    /\ ncreate = 0
    /\ halted = "none"
    /\ nV = 0
    /\ nP = 0
    /\ cs = [t \in Threads |-> FALSE]

\* the threads run the program prog on a buffer of capacity k, to move n
\* items (no buffer: k = n = 0)
Programmed(prog, k, n) ==
    /\ cpc = prog
    /\ buf = 0
    /\ cap = k
    /\ nitems = n
    /\ produced = 0
    /\ consumed = 0
    /\ tmp = [t \in Threads |-> 0]

\* instances created, every thread free to call any operation at any time
Created(c, objs) ==
    /\ Constructed(c, objs)
    /\ Programmed([t \in Threads |-> "free"], 0, 0)

\* a semaphore, created with any representable initial_count
SemInit == \E c \in 0..UINT_MAX : Created(c, {"sem"})

\* a lock and a condition variable used with it
LockInit == Created(0, {"lock", "cv"})

\* The three components share no data (each has its own guard and wait
\* channel), so a run works either on a semaphore or on a lock and its cv.
Init == SemInit \/ LockInit

\* ======================= Semaphore =======================

\* P, lines 89-102: entry assertions, then on to spinlock_acquire
P_call(t) ==
    /\ Running /\ live["sem"] /\ pc[t] = "idle"
    /\ IF t_in_interrupt[t]
       THEN Panic("P: t_in_interrupt") /\ UNCHANGED pc
       ELSE Goto(t, "P_spin") /\ UNCHANGED halted
    /\ UNCHANGED <<stack, rv, t_in_interrupt, semvars, lockvars, cvvars, live>>
    /\ UNCHANGED <<memvars, cv_arg, scnvars>>

\* line 102, and the re-acquire at the end of wchan_sleep (line 116)
P_spin(t) ==
    /\ Running /\ live["sem"] /\ pc[t] \in {"P_spin", "P_woken"}
    /\ spinlock_acquire(sem_lock, t)
    /\ sem_lock' = t
    /\ Goto(t, "P_test")
    /\ UNCHANGED <<stack, rv, t_in_interrupt, sem_count, sem_wchan,
                   initial_count, nV, nP, lockvars, cvvars, live, halted>>
    /\ UNCHANGED <<memvars, cv_arg, scnvars>>

\* mutant of P_test: the count is decremented without the loop that waits
\* for it to be positive
P_test_nowait(t) ==
    /\ Running /\ live["sem"] /\ pc[t] = "P_test"
    /\ sem_count' = (sem_count - 1) % (2^WordBits)
    /\ nP' = nP + 1
    /\ Goto(t, "P_unspin")
    /\ UNCHANGED <<stack, rv, t_in_interrupt, sem_wchan, sem_lock,
                   initial_count, nV, lockvars, cvvars, live, halted>>
    /\ UNCHANGED <<memvars, cv_arg, scnvars>>

\* lines 103-119: the loop test; sleep when the count is 0, else decrement
P_test(t) ==
    /\ Running /\ live["sem"] /\ pc[t] = "P_test"
    /\ IF sem_count = 0
       THEN /\ sem_wchan' = sem_wchan \cup {t}
            /\ sem_lock' = NoThread
            /\ Goto(t, "P_asleep")
            /\ UNCHANGED <<sem_count, nP>>
       ELSE /\ sem_count' = sem_count - 1
            /\ nP' = nP + 1
            /\ Goto(t, "P_unspin")
            /\ UNCHANGED <<sem_wchan, sem_lock>>
    /\ UNCHANGED <<stack, rv, t_in_interrupt, initial_count, nV,
                   lockvars, cvvars, live, halted>>
    /\ UNCHANGED <<memvars, cv_arg, scnvars>>

\* line 120
P_unspin(t) ==
    /\ Running /\ live["sem"] /\ pc[t] = "P_unspin"
    /\ sem_lock' = NoThread
    /\ Return(t)
    /\ UNCHANGED <<rv, t_in_interrupt, sem_count, sem_wchan,
                   initial_count, nV, nP, lockvars, cvvars, live, halted>>
    /\ UNCHANGED <<memvars, cv_arg, scnvars>>

\* V, lines 124-126
V_call(t) ==
    /\ Running /\ live["sem"] /\ pc[t] = "idle"
    /\ nV < MaxV
    /\ Goto(t, "V_spin")
    /\ UNCHANGED <<stack, rv, t_in_interrupt, semvars, lockvars, cvvars,
                   live, halted>>
    /\ UNCHANGED <<memvars, cv_arg, scnvars>>

\* line 128
V_spin(t) ==
    /\ Running /\ live["sem"] /\ pc[t] = "V_spin"
    /\ spinlock_acquire(sem_lock, t)
    /\ sem_lock' = t
    /\ Goto(t, "V_body")
    /\ UNCHANGED <<stack, rv, t_in_interrupt, sem_count, sem_wchan,
                   initial_count, nV, nP, lockvars, cvvars, live, halted>>
    /\ UNCHANGED <<memvars, cv_arg, scnvars>>

\* mutant of V_body: the increment without the wchan_wakeone
V_body_nowake(t) ==
    /\ Running /\ live["sem"] /\ pc[t] = "V_body"
    /\ sem_count' = (sem_count + 1) % (2^WordBits)
    /\ nV' = nV + 1
    /\ IF sem_count' = 0
       THEN Panic("V: sem_count > 0") /\ UNCHANGED pc
       ELSE Goto(t, "V_unspin") /\ UNCHANGED halted
    /\ UNCHANGED <<stack, rv, t_in_interrupt, sem_lock, sem_wchan,
                   initial_count, nP, lockvars, cvvars, live>>
    /\ UNCHANGED <<memvars, cv_arg, scnvars>>

\* mutant of V_body: no overflow assertion after the increment
V_body_noassert(t) ==
    /\ Running /\ live["sem"] /\ pc[t] = "V_body"
    /\ sem_count' = (sem_count + 1) % (2^WordBits)
    /\ nV' = nV + 1
    /\ IF sem_wchan = {}
       THEN /\ Goto(t, "V_unspin")
            /\ UNCHANGED sem_wchan
       ELSE \E w \in sem_wchan :
              /\ sem_wchan' = wchan_wakeone(sem_wchan, w)
              /\ pc' = [pc EXCEPT ![t] = "V_unspin", ![w] = "P_woken"]
    /\ UNCHANGED <<stack, rv, t_in_interrupt, sem_lock, initial_count, nP,
                   lockvars, cvvars, live, halted>>
    /\ UNCHANGED <<memvars, cv_arg, scnvars>>

\* lines 130-132: increment, overflow assertion, wake one sleeper
V_body(t) ==
    /\ Running /\ live["sem"] /\ pc[t] = "V_body"
    /\ sem_count' = (sem_count + 1) % (2^WordBits)
    /\ nV' = nV + 1
    /\ IF sem_count' = 0
       THEN /\ Panic("V: sem_count > 0")
            /\ UNCHANGED <<pc, sem_wchan>>
       ELSE /\ UNCHANGED halted
            /\ IF sem_wchan = {}
               THEN /\ Goto(t, "V_unspin")
                    /\ UNCHANGED sem_wchan
               ELSE \E w \in sem_wchan :
                      /\ sem_wchan' = wchan_wakeone(sem_wchan, w)
                      /\ pc' = [pc EXCEPT ![t] = "V_unspin", ![w] = "P_woken"]
    /\ UNCHANGED <<stack, rv, t_in_interrupt, sem_lock, initial_count, nP,
                   lockvars, cvvars, live>>
    /\ UNCHANGED <<memvars, cv_arg, scnvars>>

\* line 134
V_unspin(t) ==
    /\ Running /\ live["sem"] /\ pc[t] = "V_unspin"
    /\ sem_lock' = NoThread
    /\ Return(t)
    /\ UNCHANGED <<rv, t_in_interrupt, sem_count, sem_wchan,
                   initial_count, nV, nP, lockvars, cvvars, live, halted>>
    /\ UNCHANGED <<memvars, cv_arg, scnvars>>

\* sem_destroy, lines 77-86, as one step (callers serialize destroy)
sem_destroy(t) ==
    /\ Running /\ live["sem"] /\ pc[t] = "idle"
    /\ IF ~spinlock_cleanup_ok(sem_lock)
       THEN Panic("sem_destroy: spinlock_cleanup") /\ UNCHANGED <<live, heap>>
       ELSE IF ~wchan_destroy_ok(sem_wchan)
       THEN Panic("sem_destroy: wchan_destroy") /\ UNCHANGED <<live, heap>>
       ELSE /\ live' = [live EXCEPT !["sem"] = FALSE]
            /\ heap' = kfree_all("sem")
            /\ UNCHANGED halted
    /\ UNCHANGED <<pc, stack, rv, t_in_interrupt, semvars, lockvars, cvvars>>
    /\ UNCHANGED <<ncreate, cv_arg, scnvars>>

SemNext ==
    \E t \in Threads :
        \/ P_call(t)
        \/ P_spin(t)
        \/ P_test(t)
        \/ P_unspin(t)
        \/ V_call(t)
        \/ V_spin(t)
        \/ V_body(t)
        \/ V_unspin(t)
        \/ sem_destroy(t)

\* ========================= Lock =========================

\* lock_do_i_hold, line 238: the unguarded read of lock->free
dih_free(t) ==
    /\ Running /\ live["lock"] /\ pc[t] = "dih_free"
    /\ IF free = TRUE
       THEN /\ rv' = [rv EXCEPT ![t] = FALSE]
            /\ Return(t)
       ELSE /\ Goto(t, "dih_user")
            /\ UNCHANGED <<rv, stack>>
    /\ UNCHANGED <<t_in_interrupt, semvars, lockvars, cvvars, live, halted>>
    /\ UNCHANGED <<memvars, cv_arg, scnvars>>

\* mutant of dih_user: "some thread holds it" for "I hold it"
dih_user_any(t) ==
    /\ Running /\ live["lock"] /\ pc[t] = "dih_user"
    /\ rv' = [rv EXCEPT ![t] = (curr_user # NoThread)]
    /\ Return(t)
    /\ UNCHANGED <<t_in_interrupt, semvars, lockvars, cvvars, live, halted>>
    /\ UNCHANGED <<memvars, cv_arg, scnvars>>

\* lines 240-243: the unguarded read of lock->curr_user
dih_user(t) ==
    /\ Running /\ live["lock"] /\ pc[t] = "dih_user"
    /\ rv' = [rv EXCEPT ![t] = (curr_user = t)]
    /\ Return(t)
    /\ UNCHANGED <<t_in_interrupt, semvars, lockvars, cvvars, live, halted>>
    /\ UNCHANGED <<memvars, cv_arg, scnvars>>

\* a client's own call of lock_do_i_hold
dih_call(t) ==
    /\ Running /\ live["lock"] /\ pc[t] = "idle"
    /\ Call(t, "dih_free", "dih_ret")
    /\ UNCHANGED <<rv, t_in_interrupt, semvars, lockvars, cvvars, live, halted>>
    /\ UNCHANGED <<memvars, cv_arg, scnvars>>

\* the client receives the result
dih_ret(t) ==
    /\ Running /\ pc[t] = "dih_ret"
    /\ Return(t)
    /\ rv' = [rv EXCEPT ![t] = FALSE]
    /\ UNCHANGED <<t_in_interrupt, semvars, lockvars, cvvars, live, halted>>
    /\ UNCHANGED <<memvars, cv_arg, scnvars>>

\* lock_acquire, lines 200-201: entry assertions; ret is where the caller
\* continues ("idle" for a client, "w_ret" inside cv_wait)
lock_acquire_entry(t) ==
    IF t_in_interrupt[t]
    THEN Panic("lock_acquire: t_in_interrupt") /\ UNCHANGED pc
    ELSE Goto(t, "acq_spin") /\ UNCHANGED halted

\* t calls lock_acquire(lock)
acq_enter(t) ==
    /\ Running /\ live["lock"] /\ pc[t] = "idle"
    /\ lock_acquire_entry(t)
    /\ UNCHANGED <<stack, rv, t_in_interrupt, semvars, lockvars, cvvars, live>>
    /\ UNCHANGED <<memvars, cv_arg>>

acq_call(t) == acq_enter(t) /\ UNCHANGED scnvars

\* mutant of acq_spin: "if" for "while", a woken thread does not test
\* lock->free again
acq_spin_if(t) ==
    /\ Running /\ live["lock"] /\ pc[t] \in {"acq_spin", "acq_woken"}
    /\ spinlock_acquire(lock_lock, t)
    /\ lock_lock' = t
    /\ Goto(t, IF pc[t] = "acq_woken" THEN "acq_set_user" ELSE "acq_test")
    /\ UNCHANGED <<stack, rv, t_in_interrupt, semvars, free, curr_user,
                   lock_wchan, cs, cvvars, live, halted>>
    /\ UNCHANGED <<memvars, cv_arg, scnvars>>

\* line 203, and the re-acquire at the end of wchan_sleep (line 208)
acq_spin(t) ==
    /\ Running /\ live["lock"] /\ pc[t] \in {"acq_spin", "acq_woken"}
    /\ spinlock_acquire(lock_lock, t)
    /\ lock_lock' = t
    /\ Goto(t, "acq_test")
    /\ UNCHANGED <<stack, rv, t_in_interrupt, semvars, free, curr_user,
                   lock_wchan, cs, cvvars, live, halted>>
    /\ UNCHANGED <<memvars, cv_arg, scnvars>>

\* lines 205-209: the loop test; sleep while the lock is held
acq_test(t) ==
    /\ Running /\ live["lock"] /\ pc[t] = "acq_test"
    /\ IF free = FALSE
       THEN /\ lock_wchan' = lock_wchan \cup {t}
            /\ lock_lock' = NoThread
            /\ Goto(t, "acq_asleep")
       ELSE /\ Goto(t, "acq_set_user")
            /\ UNCHANGED <<lock_wchan, lock_lock>>
    /\ UNCHANGED <<stack, rv, t_in_interrupt, semvars, free, curr_user, cs,
                   cvvars, live, halted>>
    /\ UNCHANGED <<memvars, cv_arg, scnvars>>

\* line 212
acq_set_user(t) ==
    /\ Running /\ live["lock"] /\ pc[t] = "acq_set_user"
    /\ curr_user' = t
    /\ Goto(t, "acq_set_free")
    /\ UNCHANGED <<stack, rv, t_in_interrupt, semvars, free, lock_lock,
                   lock_wchan, cs, cvvars, live, halted>>
    /\ UNCHANGED <<memvars, cv_arg, scnvars>>

\* line 213
acq_set_free(t) ==
    /\ Running /\ live["lock"] /\ pc[t] = "acq_set_free"
    /\ free' = FALSE
    /\ Goto(t, "acq_unspin")
    /\ UNCHANGED <<stack, rv, t_in_interrupt, semvars, curr_user, lock_lock,
                   lock_wchan, cs, cvvars, live, halted>>
    /\ UNCHANGED <<memvars, cv_arg, scnvars>>

\* line 214 and the return of lock_acquire
acq_unspin(t) ==
    /\ Running /\ live["lock"] /\ pc[t] = "acq_unspin"
    /\ lock_lock' = NoThread
    /\ cs' = [cs EXCEPT ![t] = TRUE]
    /\ Return(t)
    /\ UNCHANGED <<rv, t_in_interrupt, semvars, free, curr_user, lock_wchan,
                   cvvars, live, halted>>
    /\ UNCHANGED <<memvars, cv_arg, scnvars>>

\* lock_release, lines 223-224: evaluate lock_do_i_hold for the assertion
rel_enter(t) ==
    /\ Running /\ live["lock"] /\ pc[t] = "idle"
    /\ Call(t, "dih_free", "rel_assert")
    /\ UNCHANGED <<rv, t_in_interrupt, semvars, lockvars, cvvars, live, halted>>
    /\ UNCHANGED <<memvars, cv_arg>>

rel_call(t) == rel_enter(t) /\ UNCHANGED scnvars

\* mutant of rel_assert: lock_release without its ownership assertion
rel_assert_nocheck(t) ==
    /\ Running /\ live["lock"] /\ pc[t] = "rel_assert"
    /\ Goto(t, "rel_spin")
    /\ cs' = [cs EXCEPT ![t] = FALSE]
    /\ rv' = [rv EXCEPT ![t] = FALSE]
    /\ UNCHANGED <<stack, t_in_interrupt, semvars, free, curr_user,
                   lock_lock, lock_wchan, cvvars, live, halted>>
    /\ UNCHANGED <<memvars, cv_arg, scnvars>>

\* line 224: KASSERT(lock_do_i_hold(lock))
rel_assert(t) ==
    /\ Running /\ live["lock"] /\ pc[t] = "rel_assert"
    /\ IF rv[t]
       THEN /\ Goto(t, "rel_spin")
            /\ cs' = [cs EXCEPT ![t] = FALSE]
            /\ UNCHANGED halted
       ELSE /\ Panic("lock_release: lock_do_i_hold")
            /\ UNCHANGED <<pc, cs>>
    /\ rv' = [rv EXCEPT ![t] = FALSE]
    /\ UNCHANGED <<stack, t_in_interrupt, semvars, free, curr_user,
                   lock_lock, lock_wchan, cvvars, live>>
    /\ UNCHANGED <<memvars, cv_arg, scnvars>>

\* mutant of rel_spin: lock_release writes the fields without the guard
rel_spin_noguard(t) ==
    /\ Running /\ live["lock"] /\ pc[t] = "rel_spin"
    /\ Goto(t, "rel_clr_user")
    /\ UNCHANGED <<stack, rv, t_in_interrupt, semvars, lockvars, cvvars, live,
                   halted>>
    /\ UNCHANGED <<memvars, cv_arg, scnvars>>

\* line 225
rel_spin(t) ==
    /\ Running /\ live["lock"] /\ pc[t] = "rel_spin"
    /\ spinlock_acquire(lock_lock, t)
    /\ lock_lock' = t
    /\ Goto(t, "rel_clr_user")
    /\ UNCHANGED <<stack, rv, t_in_interrupt, semvars, free, curr_user,
                   lock_wchan, cs, cvvars, live, halted>>
    /\ UNCHANGED <<memvars, cv_arg, scnvars>>

\* mutant of rel_clr_user: lock_release leaves curr_user as it is
rel_clr_user_skip(t) ==
    /\ Running /\ live["lock"] /\ pc[t] = "rel_clr_user"
    /\ Goto(t, "rel_set_free")
    /\ UNCHANGED <<stack, rv, t_in_interrupt, semvars, lockvars, cvvars, live,
                   halted>>
    /\ UNCHANGED <<memvars, cv_arg, scnvars>>

\* line 226
rel_clr_user(t) ==
    /\ Running /\ live["lock"] /\ pc[t] = "rel_clr_user"
    /\ curr_user' = NoThread
    /\ Goto(t, "rel_set_free")
    /\ UNCHANGED <<stack, rv, t_in_interrupt, semvars, free, lock_lock,
                   lock_wchan, cs, cvvars, live, halted>>
    /\ UNCHANGED <<memvars, cv_arg, scnvars>>

\* line 227
rel_set_free(t) ==
    /\ Running /\ live["lock"] /\ pc[t] = "rel_set_free"
    /\ free' = TRUE
    /\ Goto(t, "rel_wake")
    /\ UNCHANGED <<stack, rv, t_in_interrupt, semvars, curr_user, lock_lock,
                   lock_wchan, cs, cvvars, live, halted>>
    /\ UNCHANGED <<memvars, cv_arg, scnvars>>

\* mutant of rel_wake: lock_release wakes no one
rel_wake_none(t) ==
    /\ Running /\ live["lock"] /\ pc[t] = "rel_wake"
    /\ Goto(t, "rel_unspin")
    /\ UNCHANGED <<stack, rv, t_in_interrupt, semvars, lockvars, cvvars, live,
                   halted>>
    /\ UNCHANGED <<memvars, cv_arg, scnvars>>

\* line 228
rel_wake(t) ==
    /\ Running /\ live["lock"] /\ pc[t] = "rel_wake"
    /\ IF lock_wchan = {}
       THEN /\ Goto(t, "rel_unspin")
            /\ UNCHANGED lock_wchan
       ELSE \E w \in lock_wchan :
              /\ lock_wchan' = wchan_wakeone(lock_wchan, w)
              /\ pc' = [pc EXCEPT ![t] = "rel_unspin", ![w] = "acq_woken"]
    /\ UNCHANGED <<stack, rv, t_in_interrupt, semvars, free, curr_user,
                   lock_lock, cs, cvvars, live, halted>>
    /\ UNCHANGED <<memvars, cv_arg, scnvars>>

\* line 229 and the return of lock_release
rel_unspin(t) ==
    /\ Running /\ live["lock"] /\ pc[t] = "rel_unspin"
    /\ lock_lock' = NoThread
    /\ Return(t)
    /\ UNCHANGED <<rv, t_in_interrupt, semvars, free, curr_user, lock_wchan,
                   cs, cvvars, live, halted>>
    /\ UNCHANGED <<memvars, cv_arg, scnvars>>

\* mutant of lock_destroy: the wait channel is not destroyed (and so not
\* checked for sleepers)
lock_destroy_nowchan(t) ==
    /\ Running /\ live["lock"] /\ pc[t] = "idle"
    /\ IF free # TRUE
       THEN Panic("lock_destroy: free") /\ UNCHANGED <<live, heap>>
       ELSE IF curr_user # NoThread
       THEN Panic("lock_destroy: curr_user") /\ UNCHANGED <<live, heap>>
       ELSE IF ~spinlock_cleanup_ok(lock_lock)
       THEN Panic("lock_destroy: spinlock_cleanup") /\ UNCHANGED <<live, heap>>
       ELSE /\ live' = [live EXCEPT !["lock"] = FALSE]
            /\ heap' = kfree_all("lock")
            /\ UNCHANGED halted
    /\ UNCHANGED <<pc, stack, rv, t_in_interrupt, semvars, lockvars, cvvars>>
    /\ UNCHANGED <<ncreate, cv_arg, scnvars>>

\* lock_destroy, lines 176-193, as one step (callers serialize destroy)
lock_destroy(t) ==
    /\ Running /\ live["lock"] /\ pc[t] = "idle"
    /\ IF free # TRUE
       THEN Panic("lock_destroy: free") /\ UNCHANGED <<live, heap>>
       ELSE IF curr_user # NoThread
       THEN Panic("lock_destroy: curr_user") /\ UNCHANGED <<live, heap>>
       ELSE IF ~spinlock_cleanup_ok(lock_lock)
       THEN Panic("lock_destroy: spinlock_cleanup") /\ UNCHANGED <<live, heap>>
       ELSE IF ~wchan_destroy_ok(lock_wchan)
       THEN Panic("lock_destroy: wchan_destroy") /\ UNCHANGED <<live, heap>>
       ELSE /\ live' = [live EXCEPT !["lock"] = FALSE]
            /\ heap' = kfree_all("lock")
            /\ UNCHANGED halted
    /\ UNCHANGED <<pc, stack, rv, t_in_interrupt, semvars, lockvars, cvvars>>
    /\ UNCHANGED <<ncreate, cv_arg, scnvars>>

LockNext ==
    \E t \in Threads :
        \/ dih_call(t)
        \/ dih_free(t)
        \/ dih_user(t)
        \/ dih_ret(t)
        \/ acq_call(t)
        \/ acq_spin(t)
        \/ acq_test(t)
        \/ acq_set_user(t)
        \/ acq_set_free(t)
        \/ acq_unspin(t)
        \/ rel_call(t)
        \/ rel_assert(t)
        \/ rel_spin(t)
        \/ rel_clr_user(t)
        \/ rel_set_free(t)
        \/ rel_wake(t)
        \/ rel_unspin(t)
        \/ lock_destroy(t)


\* =================== Condition variable ===================

\* cv_wait, lines 300-302: evaluate lock_do_i_hold for the assertion
w_call_on(t, c) ==
    /\ Running /\ live[c] /\ live["lock"] /\ pc[t] = "idle"
    /\ cv_arg' = [cv_arg EXCEPT ![t] = c]
    /\ Call(t, "dih_free", "w_assert")
    /\ UNCHANGED <<rv, t_in_interrupt, semvars, lockvars, cvvars, live, halted>>
    /\ UNCHANGED memvars

\* cv_wait(cv, lock) called by t on any of the condition variables
w_call(t) ==
    /\ \E c \in CVs : w_call_on(t, c)
    /\ UNCHANGED scnvars

\* line 302: KASSERT(lock_do_i_hold(lock) == true)
w_assert(t) ==
    /\ Running /\ live[cv_arg[t]] /\ pc[t] = "w_assert"
    /\ IF rv[t]
       THEN Goto(t, "w_spin") /\ UNCHANGED halted
       ELSE Panic("cv_wait: lock_do_i_hold") /\ UNCHANGED pc
    /\ rv' = [rv EXCEPT ![t] = FALSE]
    /\ UNCHANGED <<stack, t_in_interrupt, semvars, lockvars, cvvars, live>>
    /\ UNCHANGED <<memvars, cv_arg, scnvars>>

\* mutant of w_spin: cv_wait goes on to release the lock without holding
\* the cv's guard
w_spin_noguard(t) ==
    /\ Running /\ live[cv_arg[t]] /\ pc[t] = "w_spin"
    /\ Goto(t, "w_release")
    /\ UNCHANGED <<stack, rv, t_in_interrupt, semvars, lockvars, cvvars, live,
                   halted>>
    /\ UNCHANGED <<memvars, cv_arg, scnvars>>

\* line 308: take the cv's guard
w_spin(t) ==
    /\ Running /\ live[cv_arg[t]] /\ pc[t] = "w_spin"
    /\ spinlock_acquire(control_spinlock[cv_arg[t]], t)
    /\ control_spinlock' = [control_spinlock EXCEPT ![cv_arg[t]] = t]
    /\ Goto(t, "w_release")
    /\ UNCHANGED <<stack, rv, t_in_interrupt, semvars, lockvars,
                   control_wchan, live, halted>>
    /\ UNCHANGED <<memvars, cv_arg, scnvars>>

\* line 310: lock_release(lock), which begins with its own assertion
w_release(t) ==
    /\ Running /\ live[cv_arg[t]] /\ pc[t] = "w_release"
    /\ pc' = [pc EXCEPT ![t] = "dih_free"]
    /\ stack' = [stack EXCEPT ![t] = <<"rel_assert", "w_sleep">> \o @]
    /\ UNCHANGED <<rv, t_in_interrupt, semvars, lockvars, cvvars, live, halted>>
    /\ UNCHANGED <<memvars, cv_arg, scnvars>>

\* line 312: wchan_sleep releases the cv's guard and sleeps, atomically
w_sleep(t) ==
    /\ Running /\ live[cv_arg[t]] /\ pc[t] = "w_sleep"
    /\ control_wchan' = [control_wchan EXCEPT ![cv_arg[t]] = @ \cup {t}]
    /\ control_spinlock' = [control_spinlock EXCEPT ![cv_arg[t]] = NoThread]
    /\ Goto(t, "w_asleep")
    /\ UNCHANGED <<stack, rv, t_in_interrupt, semvars, lockvars, live, halted>>
    /\ UNCHANGED <<memvars, cv_arg, scnvars>>

\* line 312: once woken, wchan_sleep takes the cv's guard again
w_woken(t) ==
    /\ Running /\ live[cv_arg[t]] /\ pc[t] = "w_woken"
    /\ spinlock_acquire(control_spinlock[cv_arg[t]], t)
    /\ control_spinlock' = [control_spinlock EXCEPT ![cv_arg[t]] = t]
    /\ Goto(t, "w_unspin")
    /\ UNCHANGED <<stack, rv, t_in_interrupt, semvars, lockvars,
                   control_wchan, live, halted>>
    /\ UNCHANGED <<memvars, cv_arg, scnvars>>

\* mutant of w_unspin: cv_wait keeps the cv's guard after it was woken
w_unspin_keep(t) ==
    /\ Running /\ live[cv_arg[t]] /\ pc[t] = "w_unspin"
    /\ Goto(t, "w_acquire")
    /\ UNCHANGED <<stack, rv, t_in_interrupt, semvars, lockvars, cvvars, live,
                   halted>>
    /\ UNCHANGED <<memvars, cv_arg, scnvars>>

\* line 313
w_unspin(t) ==
    /\ Running /\ live[cv_arg[t]] /\ pc[t] = "w_unspin"
    /\ control_spinlock' = [control_spinlock EXCEPT ![cv_arg[t]] = NoThread]
    /\ Goto(t, "w_acquire")
    /\ UNCHANGED <<stack, rv, t_in_interrupt, semvars, lockvars,
                   control_wchan, live, halted>>
    /\ UNCHANGED <<memvars, cv_arg, scnvars>>

\* mutant of w_acquire: cv_wait returns without taking the lock again
w_acquire_skip(t) ==
    /\ Running /\ live[cv_arg[t]] /\ pc[t] = "w_acquire"
    /\ Goto(t, "w_ret")
    /\ UNCHANGED <<stack, rv, t_in_interrupt, semvars, lockvars, cvvars, live,
                   halted>>
    /\ UNCHANGED <<memvars, cv_arg, scnvars>>

\* line 314: lock_acquire(lock)
w_acquire(t) ==
    /\ Running /\ live[cv_arg[t]] /\ pc[t] = "w_acquire"
    /\ lock_acquire_entry(t)
    /\ stack' = [stack EXCEPT ![t] = <<"w_ret">> \o @]
    /\ UNCHANGED <<rv, t_in_interrupt, semvars, lockvars, cvvars, live>>
    /\ UNCHANGED <<memvars, cv_arg, scnvars>>

\* line 318: cv_wait returns
w_ret(t) ==
    /\ Running /\ pc[t] = "w_ret"
    /\ Return(t)
    /\ UNCHANGED <<rv, t_in_interrupt, semvars, lockvars, cvvars, live, halted>>
    /\ UNCHANGED <<memvars, cv_arg, scnvars>>

\* cv_signal, lines 323-325
sig_call_on(t, c) ==
    /\ Running /\ live[c] /\ live["lock"] /\ pc[t] = "idle"
    /\ cv_arg' = [cv_arg EXCEPT ![t] = c]
    /\ Call(t, "dih_free", "sig_assert")
    /\ UNCHANGED <<rv, t_in_interrupt, semvars, lockvars, cvvars, live, halted>>
    /\ UNCHANGED memvars

\* cv_signal(cv, lock) called by t on any of the condition variables
sig_call(t) ==
    /\ \E c \in CVs : sig_call_on(t, c)
    /\ UNCHANGED scnvars

\* line 325
sig_assert(t) ==
    /\ Running /\ live[cv_arg[t]] /\ pc[t] = "sig_assert"
    /\ IF rv[t]
       THEN Goto(t, "sig_spin") /\ UNCHANGED halted
       ELSE Panic("cv_signal: lock_do_i_hold") /\ UNCHANGED pc
    /\ rv' = [rv EXCEPT ![t] = FALSE]
    /\ UNCHANGED <<stack, t_in_interrupt, semvars, lockvars, cvvars, live>>
    /\ UNCHANGED <<memvars, cv_arg, scnvars>>

\* line 327
sig_spin(t) ==
    /\ Running /\ live[cv_arg[t]] /\ pc[t] = "sig_spin"
    /\ spinlock_acquire(control_spinlock[cv_arg[t]], t)
    /\ control_spinlock' = [control_spinlock EXCEPT ![cv_arg[t]] = t]
    /\ Goto(t, "sig_wake")
    /\ UNCHANGED <<stack, rv, t_in_interrupt, semvars, lockvars,
                   control_wchan, live, halted>>
    /\ UNCHANGED <<memvars, cv_arg, scnvars>>

\* mutant of sig_wake: wchan_wakeall for wchan_wakeone
sig_wake_all(t) ==
    /\ Running /\ live[cv_arg[t]] /\ pc[t] = "sig_wake"
    /\ control_wchan' = [control_wchan EXCEPT ![cv_arg[t]] = {}]
    /\ pc' = [u \in Threads |->
                IF u = t THEN "sig_unspin"
                ELSE IF u \in control_wchan[cv_arg[t]] THEN "w_woken"
                ELSE pc[u]]
    /\ UNCHANGED <<stack, rv, t_in_interrupt, semvars, lockvars,
                   control_spinlock, live, halted>>
    /\ UNCHANGED <<memvars, cv_arg, scnvars>>

\* mutant of sig_wake: cv_signal wakes no one
sig_wake_none(t) ==
    /\ Running /\ live[cv_arg[t]] /\ pc[t] = "sig_wake"
    /\ Goto(t, "sig_unspin")
    /\ UNCHANGED <<stack, rv, t_in_interrupt, semvars, lockvars, cvvars, live,
                   halted>>
    /\ UNCHANGED <<memvars, cv_arg, scnvars>>

\* line 329: wchan_wakeone
sig_wake(t) ==
    /\ Running /\ live[cv_arg[t]] /\ pc[t] = "sig_wake"
    /\ IF control_wchan[cv_arg[t]] = {}
       THEN /\ Goto(t, "sig_unspin")
            /\ UNCHANGED control_wchan
       ELSE \E w \in control_wchan[cv_arg[t]] :
              /\ control_wchan' = [control_wchan EXCEPT
                                    ![cv_arg[t]] = wchan_wakeone(@, w)]
              /\ pc' = [pc EXCEPT ![t] = "sig_unspin", ![w] = "w_woken"]
    /\ UNCHANGED <<stack, rv, t_in_interrupt, semvars, lockvars,
                   control_spinlock, live, halted>>
    /\ UNCHANGED <<memvars, cv_arg, scnvars>>

\* mutant of sig_unspin: cv_signal returns with the cv's guard held
sig_unspin_keep(t) ==
    /\ Running /\ live[cv_arg[t]] /\ pc[t] = "sig_unspin"
    /\ Return(t)
    /\ UNCHANGED <<rv, t_in_interrupt, semvars, lockvars, cvvars, live,
                   halted>>
    /\ UNCHANGED <<memvars, cv_arg, scnvars>>

\* line 331
sig_unspin(t) ==
    /\ Running /\ live[cv_arg[t]] /\ pc[t] = "sig_unspin"
    /\ control_spinlock' = [control_spinlock EXCEPT ![cv_arg[t]] = NoThread]
    /\ Return(t)
    /\ UNCHANGED <<rv, t_in_interrupt, semvars, lockvars, control_wchan,
                   live, halted>>
    /\ UNCHANGED <<memvars, cv_arg, scnvars>>

\* cv_broadcast, lines 340-342
bc_call_on(t, c) ==
    /\ Running /\ live[c] /\ live["lock"] /\ pc[t] = "idle"
    /\ cv_arg' = [cv_arg EXCEPT ![t] = c]
    /\ Call(t, "dih_free", "bc_assert")
    /\ UNCHANGED <<rv, t_in_interrupt, semvars, lockvars, cvvars, live, halted>>
    /\ UNCHANGED memvars

\* cv_broadcast(cv, lock) called by t on any of the condition variables
bc_call(t) ==
    /\ \E c \in CVs : bc_call_on(t, c)
    /\ UNCHANGED scnvars

\* line 342
bc_assert(t) ==
    /\ Running /\ live[cv_arg[t]] /\ pc[t] = "bc_assert"
    /\ IF rv[t]
       THEN Goto(t, "bc_spin") /\ UNCHANGED halted
       ELSE Panic("cv_broadcast: lock_do_i_hold") /\ UNCHANGED pc
    /\ rv' = [rv EXCEPT ![t] = FALSE]
    /\ UNCHANGED <<stack, t_in_interrupt, semvars, lockvars, cvvars, live>>
    /\ UNCHANGED <<memvars, cv_arg, scnvars>>

\* line 346
bc_spin(t) ==
    /\ Running /\ live[cv_arg[t]] /\ pc[t] = "bc_spin"
    /\ spinlock_acquire(control_spinlock[cv_arg[t]], t)
    /\ control_spinlock' = [control_spinlock EXCEPT ![cv_arg[t]] = t]
    /\ Goto(t, "bc_wake")
    /\ UNCHANGED <<stack, rv, t_in_interrupt, semvars, lockvars,
                   control_wchan, live, halted>>
    /\ UNCHANGED <<memvars, cv_arg, scnvars>>

\* mutant of bc_wake: wchan_wakeone for wchan_wakeall
bc_wake_one(t) ==
    /\ Running /\ live[cv_arg[t]] /\ pc[t] = "bc_wake"
    /\ IF control_wchan[cv_arg[t]] = {}
       THEN /\ Goto(t, "bc_unspin")
            /\ UNCHANGED control_wchan
       ELSE \E w \in control_wchan[cv_arg[t]] :
              /\ control_wchan' = [control_wchan EXCEPT
                                    ![cv_arg[t]] = wchan_wakeone(@, w)]
              /\ pc' = [pc EXCEPT ![t] = "bc_unspin", ![w] = "w_woken"]
    /\ UNCHANGED <<stack, rv, t_in_interrupt, semvars, lockvars,
                   control_spinlock, live, halted>>
    /\ UNCHANGED <<memvars, cv_arg, scnvars>>

\* mutant of bc_wake: cv_broadcast wakes no one
bc_wake_none(t) ==
    /\ Running /\ live[cv_arg[t]] /\ pc[t] = "bc_wake"
    /\ Goto(t, "bc_unspin")
    /\ UNCHANGED <<stack, rv, t_in_interrupt, semvars, lockvars, cvvars, live,
                   halted>>
    /\ UNCHANGED <<memvars, cv_arg, scnvars>>

\* line 348: wchan_wakeall
bc_wake(t) ==
    /\ Running /\ live[cv_arg[t]] /\ pc[t] = "bc_wake"
    /\ control_wchan' = [control_wchan EXCEPT ![cv_arg[t]] = {}]
    /\ pc' = [u \in Threads |->
                IF u = t THEN "bc_unspin"
                ELSE IF u \in control_wchan[cv_arg[t]] THEN "w_woken"
                ELSE pc[u]]
    /\ UNCHANGED <<stack, rv, t_in_interrupt, semvars, lockvars,
                   control_spinlock, live, halted>>
    /\ UNCHANGED <<memvars, cv_arg, scnvars>>

\* line 350
bc_unspin(t) ==
    /\ Running /\ live[cv_arg[t]] /\ pc[t] = "bc_unspin"
    /\ control_spinlock' = [control_spinlock EXCEPT ![cv_arg[t]] = NoThread]
    /\ Return(t)
    /\ UNCHANGED <<rv, t_in_interrupt, semvars, lockvars, control_wchan,
                   live, halted>>
    /\ UNCHANGED <<memvars, cv_arg, scnvars>>

\* cv_destroy, lines 284-295, as one step (callers serialize destroy)
cv_destroy(t) ==
    /\ Running /\ pc[t] = "idle"
    /\ \E c \in CVs :
         /\ live[c]
         /\ IF ~wchan_destroy_ok(control_wchan[c])
            THEN Panic("cv_destroy: wchan_destroy") /\ UNCHANGED <<live, heap>>
            ELSE IF ~spinlock_cleanup_ok(control_spinlock[c])
            THEN Panic("cv_destroy: spinlock_cleanup")
                 /\ UNCHANGED <<live, heap>>
            ELSE /\ live' = [live EXCEPT ![c] = FALSE]
                 /\ heap' = kfree_all(c)
                 /\ UNCHANGED halted
    /\ UNCHANGED <<pc, stack, rv, t_in_interrupt, semvars, lockvars, cvvars>>
    /\ UNCHANGED <<ncreate, cv_arg, scnvars>>

CvNext ==
    \E t \in Threads :
        \/ w_call(t)
        \/ w_assert(t)
        \/ w_spin(t)
        \/ w_release(t)
        \/ w_sleep(t)
        \/ w_woken(t)
        \/ w_unspin(t)
        \/ w_acquire(t)
        \/ w_ret(t)
        \/ sig_call(t)
        \/ sig_assert(t)
        \/ sig_spin(t)
        \/ sig_wake(t)
        \/ sig_unspin(t)
        \/ bc_call(t)
        \/ bc_assert(t)
        \/ bc_spin(t)
        \/ bc_wake(t)
        \/ bc_unspin(t)
        \/ cv_destroy(t)

\* =================== Creation ===================

\* one more live allocation for block b (kmalloc, kstrdup, wchan_create)
kmalloc(h, b) == [h EXCEPT ![b] = @ + 1]

\* kfree of the blocks bs
kfree(h, bs) == [b \in Objs \X Parts |-> IF b \in bs THEN h[b] - 1 ELSE h[b]]

\* the heap after a create of o whose allocation `fail` fails ("none": all
\* succeed); onwchan is what the wchan_create failure branch frees
create_heap(o, fail, onwchan) ==
    LET h1 == kmalloc(heap, <<o, "struct">>)
        h2 == kmalloc(h1, <<o, "name">>)
        h3 == kmalloc(h2, <<o, "wchan">>)
    IN  IF fail = "struct" THEN heap
        ELSE IF fail = "name" THEN kfree(h1, {<<o, "struct">>})
        ELSE IF fail = "wchan" THEN kfree(h2, onwchan)
        ELSE h3

\* a create is called between operations, for an instance not in use
CanCreate(t, o) ==
    /\ Running /\ ncreate < MaxCreate /\ ~live[o]
    /\ \A u \in Threads : pc[u] = "idle"
    /\ ncreate' = ncreate + 1

\* sem_create, lines 47-74: on failure NULL, on success a semaphore with
\* sem_count = initial_count
sem_create(t) ==
    /\ CanCreate(t, "sem")
    /\ \E fail \in Parts \cup {"none"}, c \in 0..UINT_MAX :
         /\ heap' = create_heap("sem", fail,
                                {<<"sem", "name">>, <<"sem", "struct">>})
         /\ IF fail = "none"
            THEN /\ live' = [live EXCEPT !["sem"] = TRUE]
                 /\ sem_count' = c
                 /\ initial_count' = c
                 /\ sem_lock' = NoThread
                 /\ sem_wchan' = {}
                 /\ nV' = 0
                 /\ nP' = 0
            ELSE UNCHANGED <<live, semvars>>
    /\ UNCHANGED <<pc, stack, rv, t_in_interrupt, lockvars, cvvars, halted,
                   cv_arg, scnvars>>

\* lock_create, lines 141-173: the wchan_create failure branch (lines
\* 160-163) calls kfree(lock->lock_wchan), which is kfree(NULL), and
\* kfree(lock); lk_name is not freed
lock_create(t) ==
    /\ CanCreate(t, "lock")
    /\ \E fail \in Parts \cup {"none"} :
         /\ heap' = create_heap("lock", fail, {<<"lock", "struct">>})
         /\ IF fail = "none"
            THEN /\ live' = [live EXCEPT !["lock"] = TRUE]
                 /\ free' = TRUE
                 /\ curr_user' = NoThread
                 /\ lock_lock' = NoThread
                 /\ lock_wchan' = {}
                 /\ UNCHANGED cs
            ELSE UNCHANGED <<live, lockvars>>
    /\ UNCHANGED <<pc, stack, rv, t_in_interrupt, semvars, cvvars, halted,
                   cv_arg, scnvars>>

\* cv_create, lines 255-281
cv_create(t) ==
    /\ \E c \in CVs :
         /\ CanCreate(t, c)
         /\ \E fail \in Parts \cup {"none"} :
              /\ heap' = create_heap(c, fail, {<<c, "name">>, <<c, "struct">>})
              /\ IF fail = "none"
                 THEN /\ live' = [live EXCEPT ![c] = TRUE]
                      /\ control_spinlock' =
                             [control_spinlock EXCEPT ![c] = NoThread]
                      /\ control_wchan' = [control_wchan EXCEPT ![c] = {}]
                 ELSE UNCHANGED <<live, cvvars>>
    /\ UNCHANGED <<pc, stack, rv, t_in_interrupt, semvars, lockvars, halted,
                   cv_arg, scnvars>>

\* creates and destroys, from the state where nothing has been created
CreateInit == Created(0, {})

CreateNext ==
    \E t \in Threads :
        \/ sem_create(t)
        \/ lock_create(t)
        \/ cv_create(t)
        \/ sem_destroy(t)
        \/ lock_destroy(t)
        \/ cv_destroy(t)

CreateSpec == CreateInit /\ [][CreateNext]_vars

\* =================== Interrupts ===================

\* an interrupt arrives while t is between two operations: the handler runs
\* on t's context, so curthread stays t and t_in_interrupt becomes true
\* (the flag tested at lines 99 and 201); the handler's calls are t's calls
intr_enter(t) ==
    /\ Running /\ t = NThreads /\ pc[t] = "idle" /\ ~t_in_interrupt[t]
    /\ t_in_interrupt' = [t_in_interrupt EXCEPT ![t] = TRUE]
    /\ UNCHANGED <<pc, stack, rv, semvars, lockvars, cvvars, live, halted>>
    /\ UNCHANGED <<memvars, cv_arg, scnvars>>

\* the handler returns
intr_exit(t) ==
    /\ Running /\ pc[t] = "idle" /\ t_in_interrupt[t]
    /\ t_in_interrupt' = [t_in_interrupt EXCEPT ![t] = FALSE]
    /\ UNCHANGED <<pc, stack, rv, semvars, lockvars, cvvars, live, halted>>
    /\ UNCHANGED <<memvars, cv_arg, scnvars>>

IntrNext ==
    \E t \in Threads :
        \/ intr_enter(t)
        \/ intr_exit(t)

Next == SemNext \/ LockNext \/ CvNext \/ IntrNext

Spec == Init /\ [][Next]_vars

SemSpec == SemInit /\ [][SemNext]_vars

\* Fair scheduling of the semaphore's users: a thread inside P or V keeps
\* running, and a thread spinning on the guard gets it when it is free
\* again and again.  Calls themselves are not forced.
SemFairness ==
    \A t \in Threads :
        /\ SF_vars(P_spin(t))
        /\ WF_vars(P_test(t))
        /\ WF_vars(P_unspin(t))
        /\ SF_vars(V_spin(t))
        /\ WF_vars(V_body(t))
        /\ WF_vars(V_unspin(t))

SemFairSpec == SemInit /\ [][SemNext]_vars /\ SemFairness

\* the lock alone
LockSpec == LockInit /\ [][LockNext]_vars

\* the steps of t inside lock_acquire, lock_release and lock_do_i_hold that
\* wait for nothing: a running thread goes on running
LockStep(t) ==
    \/ dih_free(t) \/ dih_user(t) \/ dih_ret(t)
    \/ acq_test(t) \/ acq_set_user(t) \/ acq_set_free(t) \/ acq_unspin(t)
    \/ rel_assert(t) \/ rel_clr_user(t) \/ rel_set_free(t) \/ rel_wake(t)
    \/ rel_unspin(t)

\* fair scheduling: a running thread goes on running, a thread spinning on
\* a guard that is free again and again gets it, and a holder that has
\* returned from lock_acquire calls lock_release
LockFairness ==
    \A t \in Threads :
        /\ WF_vars(LockStep(t))
        /\ SF_vars(acq_spin(t) \/ rel_spin(t))
        /\ WF_vars(cs[t] /\ rel_call(t))

LockFairSpec == LockSpec /\ LockFairness


\* the steps of t inside the cv operations that wait for nothing
CvStep(t) ==
    \/ w_assert(t) \/ w_release(t) \/ w_sleep(t) \/ w_unspin(t)
    \/ w_acquire(t) \/ w_ret(t)
    \/ sig_assert(t) \/ sig_wake(t) \/ sig_unspin(t)
    \/ bc_assert(t) \/ bc_wake(t) \/ bc_unspin(t)

\* the spinlock_acquire calls of t: strong fairness, a spinning thread gets
\* a guard that is free again and again
SpinStep(t) ==
    \/ acq_spin(t) \/ rel_spin(t)
    \/ w_spin(t) \/ w_woken(t) \/ sig_spin(t) \/ bc_spin(t)

\* the operations on a lock and a condition variable in use: lock_acquire,
\* lock_release, lock_do_i_hold, cv_wait, cv_signal, cv_broadcast
GuardNext ==
    \E t \in Threads :
        \/ acq_call(t) \/ rel_call(t) \/ dih_call(t) \/ w_call(t)
        \/ sig_call(t) \/ bc_call(t)
        \/ LockStep(t) \/ CvStep(t) \/ SpinStep(t)

CvSpec == LockInit /\ [][GuardNext]_vars

CvFairness ==
    \A t \in Threads :
        /\ WF_vars(LockStep(t) \/ CvStep(t))
        /\ SF_vars(SpinStep(t))

CvFairSpec == CvSpec /\ CvFairness

\* =================== Scenario C: bounded buffer ===================

\* everything but the scenario's own variables
kernvars == <<pc, stack, rv, t_in_interrupt, semvars, lockvars, cvvars,
              cv_arg, live, halted, memvars>>

Producer == 1
Consumer == 2

\* "cv" is the not-empty condition, "cv2" the not-full condition
WaitCv(t) == IF t = Producer THEN "cv2" ELSE "cv"
SignalCv(t) == IF t = Producer THEN "cv" ELSE "cv2"

\* the items t has moved, and whether t has to wait
Moved(t) == IF t = Producer THEN produced ELSE consumed
MustWait(t) == IF t = Producer THEN buf = cap ELSE buf = 0

\* one lock and two condition variables; a producer and a consumer, each
\* about to take the lock; capacity k >= 1, n items to move
BufInit ==
    \E k \in 1..MaxCap, n \in 0..MaxItems :
        /\ Constructed(0, {"lock", "cv", "cv2"})
        /\ \A t \in Threads : ~t_in_interrupt[t]
        /\ Programmed([t \in Threads |->
                          IF t \in {Producer, Consumer} THEN "lock"
                          ELSE "done"], k, n)

\* all items moved: the thread terminates
buf_done(t) ==
    /\ Running /\ pc[t] = "idle" /\ cpc[t] = "lock"
    /\ Moved(t) = nitems
    /\ cpc' = [cpc EXCEPT ![t] = "done"]
    /\ UNCHANGED <<kernvars, buf, cap, nitems, produced, consumed, tmp>>

\* lock_acquire(lock) for the next item
buf_lock(t) ==
    /\ cpc[t] = "lock" /\ Moved(t) < nitems
    /\ acq_enter(t)
    /\ cpc' = [cpc EXCEPT ![t] = "check"]
    /\ UNCHANGED <<buf, cap, nitems, produced, consumed, tmp>>

\* the loop around cv_wait: while the buffer is full (empty), wait on
\* not-full (not-empty); otherwise read the occupancy
buf_check(t) ==
    /\ cpc[t] = "check" /\ pc[t] = "idle"
    /\ IF MustWait(t)
       THEN /\ w_call_on(t, WaitCv(t))
            /\ UNCHANGED scnvars
       ELSE /\ Running
            /\ tmp' = [tmp EXCEPT ![t] = buf]
            /\ cpc' = [cpc EXCEPT ![t] = "move"]
            /\ UNCHANGED <<kernvars, buf, cap, nitems, produced, consumed>>

\* put (take) one item: write the occupancy back
buf_move(t) ==
    /\ Running /\ cpc[t] = "move" /\ pc[t] = "idle"
    /\ IF t = Producer
       THEN buf' = tmp[t] + 1 /\ produced' = produced + 1
            /\ UNCHANGED consumed
       ELSE buf' = tmp[t] - 1 /\ consumed' = consumed + 1
            /\ UNCHANGED produced
    /\ cpc' = [cpc EXCEPT ![t] = "signal"]
    /\ UNCHANGED <<kernvars, cap, nitems, tmp>>

\* cv_signal on the other condition
buf_signal(t) ==
    /\ cpc[t] = "signal"
    /\ sig_call_on(t, SignalCv(t))
    /\ cpc' = [cpc EXCEPT ![t] = "unlock"]
    /\ UNCHANGED <<buf, cap, nitems, produced, consumed, tmp>>

\* lock_release(lock)
buf_unlock(t) ==
    /\ cpc[t] = "unlock"
    /\ rel_enter(t)
    /\ cpc' = [cpc EXCEPT ![t] = "lock"]
    /\ UNCHANGED <<buf, cap, nitems, produced, consumed, tmp>>

\* the steps of the program
BufProgram(t) ==
    \/ buf_done(t) \/ buf_lock(t) \/ buf_check(t) \/ buf_move(t)
    \/ buf_signal(t) \/ buf_unlock(t)

\* the steps inside the operations the program calls, spinning apart
BufStep(t) ==
    \/ dih_free(t) \/ dih_user(t)
    \/ acq_test(t) \/ acq_set_user(t) \/ acq_set_free(t) \/ acq_unspin(t)
    \/ rel_assert(t) \/ rel_clr_user(t) \/ rel_set_free(t) \/ rel_wake(t)
    \/ rel_unspin(t)
    \/ w_assert(t) \/ w_release(t) \/ w_sleep(t) \/ w_unspin(t)
    \/ w_acquire(t) \/ w_ret(t)
    \/ sig_assert(t) \/ sig_wake(t) \/ sig_unspin(t)

BufSpin(t) ==
    \/ acq_spin(t) \/ rel_spin(t) \/ w_spin(t) \/ w_woken(t) \/ sig_spin(t)

BufNext == \E t \in Threads : BufProgram(t) \/ BufStep(t) \/ BufSpin(t)

BufFairness ==
    \A t \in Threads :
        /\ WF_vars(BufProgram(t) \/ BufStep(t))
        /\ SF_vars(BufSpin(t))

BufSpec == BufInit /\ [][BufNext]_vars /\ BufFairness

\* =================== Scenario D: broadcast to many ===================

\* the last thread broadcasts, the others wait
Broadcaster == NThreads
Waiters == Threads \ {Broadcaster}

\* one lock and one condition variable; every thread about to take the lock
ManyInit ==
    /\ Constructed(0, {"lock", "cv"})
    /\ \A t \in Threads : ~t_in_interrupt[t]
    /\ Programmed([t \in Threads |-> "lock"], 0, 0)

\* lock_acquire(lock); the broadcaster starts once every waiter is asleep
\* in cv_wait
many_lock(t) ==
    /\ cpc[t] = "lock"
    /\ t = Broadcaster => \A w \in Waiters : pc[w] = "w_asleep"
    /\ acq_enter(t)
    /\ cpc' = [cpc EXCEPT ![t] = IF t = Broadcaster THEN "bcast" ELSE "wait"]
    /\ UNCHANGED <<buf, cap, nitems, produced, consumed, tmp>>

\* a waiter calls cv_wait(cv, lock)
many_wait(t) ==
    /\ cpc[t] = "wait"
    /\ w_call_on(t, "cv")
    /\ cpc' = [cpc EXCEPT ![t] = "unlock"]
    /\ UNCHANGED <<buf, cap, nitems, produced, consumed, tmp>>

\* the broadcaster calls cv_broadcast(cv, lock)
many_broadcast(t) ==
    /\ cpc[t] = "bcast"
    /\ bc_call_on(t, "cv")
    /\ cpc' = [cpc EXCEPT ![t] = "unlock"]
    /\ UNCHANGED <<buf, cap, nitems, produced, consumed, tmp>>

\* lock_release(lock), after cv_wait or cv_broadcast has returned
many_unlock(t) ==
    /\ cpc[t] = "unlock"
    /\ rel_enter(t)
    /\ cpc' = [cpc EXCEPT ![t] = "end"]
    /\ UNCHANGED <<buf, cap, nitems, produced, consumed, tmp>>

ManyProgram(t) ==
    \/ many_lock(t) \/ many_wait(t) \/ many_broadcast(t) \/ many_unlock(t)

\* the steps inside the operations the program calls, spinning apart
ManyStep(t) ==
    \/ dih_free(t) \/ dih_user(t)
    \/ acq_test(t) \/ acq_set_user(t) \/ acq_set_free(t) \/ acq_unspin(t)
    \/ rel_assert(t) \/ rel_clr_user(t) \/ rel_set_free(t) \/ rel_wake(t)
    \/ rel_unspin(t)
    \/ w_assert(t) \/ w_release(t) \/ w_sleep(t) \/ w_unspin(t)
    \/ w_acquire(t) \/ w_ret(t)
    \/ bc_assert(t) \/ bc_wake(t) \/ bc_unspin(t)

ManySpin(t) ==
    \/ acq_spin(t) \/ rel_spin(t) \/ w_spin(t) \/ w_woken(t) \/ bc_spin(t)

ManyNext == \E t \in Threads : ManyProgram(t) \/ ManyStep(t) \/ ManySpin(t)

ManyFairness ==
    \A t \in Threads :
        /\ WF_vars(ManyProgram(t) \/ ManyStep(t))
        /\ SF_vars(ManySpin(t))

ManySpec == ManyInit /\ [][ManyNext]_vars /\ ManyFairness

\* ========================= Claims =========================

\* what lock_do_i_hold returns to t when both reads see the same state
DoIHold(t) == free = FALSE /\ curr_user = t

\* t is inside cv_wait (in its own code or in a call it made)
InCvWait(t) ==
    \/ pc[t] \in {"w_assert", "w_spin", "w_release", "w_sleep", "w_asleep",
                  "w_woken", "w_unspin", "w_acquire", "w_ret"}
    \/ \E i \in 1..Len(stack[t]) :
           stack[t][i] \in {"w_assert", "w_sleep", "w_ret"}

\* C1: mutual exclusion on the lock. At most one thread is between the
\* return of its lock_acquire and the start of its lock_release (the
\* release and re-acquire inside cv_wait included), lock_do_i_hold holds of
\* at most one thread, and at most one thread has been told "true" by it.
C1_MutualExclusion ==
    \A t1, t2 \in Threads :
        /\ (cs[t1] /\ cs[t2]) => t1 = t2
        /\ (DoIHold(t1) /\ DoIHold(t2)) => t1 = t2
        /\ (rv[t1] /\ rv[t2]) => t1 = t2

\* a thread owns the lock while a sleeper that was woken for it has not run
\* yet (the owner took the lock ahead of it) and a cv waiter is re-acquiring
C1_Witness ==
    \E t, u, w \in Threads :
        /\ cs[t]
        /\ pc[u] = "acq_woken"
        /\ InCvWait(w) /\ pc[w] \in {"acq_spin", "acq_asleep", "acq_woken"}

\* C3: when cv_wait returns to t, the lock is held by t.
C3_WaitReturnsHolding ==
    \A t \in Threads :
        pc[t] = "w_ret" => (free = FALSE /\ curr_user = t /\ cs[t])

\* cv_wait returns to t after t had to sleep on the lock to get it back
\* while another thread is waiting for the lock
C3_Witness ==
    \E t, u \in Threads :
        /\ pc[t] = "w_ret"
        /\ pc[u] \in {"acq_asleep", "acq_woken", "acq_spin"}

\* t is in cv_wait between its call of lock_release (line 310) and the
\* moment wchan_sleep has put it to sleep (line 312)
ReleasingInWait(t) ==
    \/ pc[t] \in {"w_release", "w_sleep"}
    \/ \E i \in 1..Len(stack[t]) : stack[t][i] = "w_sleep"

\* t is in cv_wait, has set the lock free and is not yet asleep
InWindow(t) ==
    \/ pc[t] = "w_sleep"
    \/ /\ pc[t] \in {"rel_wake", "rel_unspin"}
       /\ \E i \in 1..Len(stack[t]) : stack[t][i] = "w_sleep"

\* C4: no lost wakeup. A waiter holds the cv's guard from before it
\* releases the lock until it is put to sleep, and no wchan_wakeone or
\* wchan_wakeall on the cv is about to run while a waiter has released the
\* lock and is not yet asleep.
C4_NoLostWakeup ==
    \A w \in Threads :
        /\ ReleasingInWait(w) => control_spinlock[cv_arg[w]] = w
        /\ InWindow(w) =>
               \A s \in Threads :
                   ~(pc[s] \in {"sig_wake", "bc_wake"}
                     /\ cv_arg[s] = cv_arg[w])

\* a waiter has released the lock and is not yet asleep, and a thread that
\* took the lock after that is spinning on the cv's guard to signal
C4_Witness ==
    \E w, s \in Threads :
        /\ InWindow(w)
        /\ pc[s] \in {"sig_spin", "bc_spin"}
        /\ cv_arg[s] = cv_arg[w]
        /\ cs[s]

\* the threads that wchan_sleep has returned control to but that have not
\* taken the cv's guard again
Woken == {u \in Threads : pc[u] = "w_woken"}

\* C5: cv_signal wakes exactly one sleeper when there is one and never more;
\* with no sleeper it changes nothing but its own position; a waiter always
\* goes to sleep at wchan_sleep, whatever signals came before, and leaves
\* the wait channel only in the wake step of a cv_signal or cv_broadcast.
C5_SignalStep ==
    \A s \in Threads :
        (pc[s] = "sig_wake" /\ pc'[s] # "sig_wake") =>
            /\ pc'[s] = "sig_unspin"
            /\ IF control_wchan[cv_arg[s]] = {}
               THEN /\ control_wchan' = control_wchan
                    /\ \A u \in Threads \ {s} : pc'[u] = pc[u]
                    /\ UNCHANGED <<stack, rv, semvars, lockvars,
                                   control_spinlock, live, halted>>
               ELSE \E w \in control_wchan[cv_arg[s]] :
                    /\ control_wchan' = [control_wchan EXCEPT
                                            ![cv_arg[s]] = @ \ {w}]
                    /\ pc'[w] = "w_woken"
                    /\ \A u \in Threads \ {s, w} : pc'[u] = pc[u]

C5_SleepStep ==
    \A w \in Threads :
        /\ (pc[w] = "w_sleep" /\ pc'[w] # "w_sleep") =>
               (pc'[w] = "w_asleep" /\ w \in control_wchan'[cv_arg[w]])
        /\ (pc[w] = "w_asleep" /\ pc'[w] # "w_asleep") =>
               /\ pc'[w] = "w_woken"
               /\ \E s \in Threads :
                      /\ pc[s] \in {"sig_wake", "bc_wake"}
                      /\ pc'[s] \in {"sig_unspin", "bc_unspin"}
                      /\ cv_arg[s] = cv_arg[w]

C5_SignalWakesOne == [][C5_SignalStep /\ C5_SleepStep]_vars

\* cv_signal has run with two threads asleep: one was woken, one sleeps on
C5_Witness ==
    \E s \in Threads :
        /\ pc[s] = "sig_unspin"
        /\ Cardinality(control_wchan[cv_arg[s]]) = 1
        /\ Cardinality(Woken) = 1

\* C6: cv_broadcast wakes exactly the threads asleep on the cv's wait
\* channel when its wchan_wakeall runs: each of them becomes runnable, no
\* other thread changes position, and the rest of cv_broadcast wakes no one.
C6_BroadcastStep ==
    \A b \in Threads :
        /\ (pc[b] = "bc_wake" /\ pc'[b] # "bc_wake") =>
               /\ pc'[b] = "bc_unspin"
               /\ control_wchan' = [control_wchan EXCEPT ![cv_arg[b]] = {}]
               /\ \A u \in Threads \ {b} :
                      IF u \in control_wchan[cv_arg[b]]
                      THEN pc[u] = "w_asleep" /\ pc'[u] = "w_woken"
                      ELSE pc'[u] = pc[u]
        /\ (pc[b] = "bc_unspin" /\ pc'[b] # "bc_unspin") =>
               /\ control_wchan' = control_wchan
               /\ \A u \in Threads \ {b} : pc'[u] = pc[u]

C6_BroadcastWakesAll == [][C6_BroadcastStep]_vars

\* cv_broadcast has run with two threads asleep and both are runnable
C6_Witness ==
    \E b \in Threads :
        /\ pc[b] = "bc_unspin"
        /\ Cardinality(Woken) = 2
        /\ control_wchan[cv_arg[b]] = {}

\* t is evaluating the assertion of a lock_release it called
InReleaseAssert(t) ==
    \/ pc[t] = "rel_assert"
    \/ /\ pc[t] \in {"dih_free", "dih_user"}
       /\ Head(stack[t]) = "rel_assert"

\* the threads wchan_wakeone has woken from lock_wchan and that have not
\* run yet
LockWoken == {u \in Threads : pc[u] = "acq_woken"}

\* C8: lock_release by a thread that does not own the lock never gets past
\* its assertion: no step of the call changes free, curr_user or the
\* sleepers of lock_wchan or wakes a thread, and the call ends in the fatal
\* assertion.
C8_Step ==
    \A t \in Threads :
        (InReleaseAssert(t) /\ ~cs[t]) =>
            \* the two reads of lock_do_i_hold change nothing
            /\ pc'[t] # pc[t] =>
                   /\ InReleaseAssert(t)'
                   /\ UNCHANGED <<free, curr_user, lock_wchan, halted>>
                   /\ LockWoken' = LockWoken
            \* the assertion is bound to fail and t stays at it
            /\ pc[t] = "rel_assert" => (~rv[t] /\ pc'[t] = "rel_assert")
            \* the panic leaves the lock and every thread as they were
            /\ (halted = "none" /\ halted' = "lock_release: lock_do_i_hold") =>
                   /\ UNCHANGED <<free, curr_user, lock_wchan, pc>>

C8_WrongReleaseIsFatal == [][C8_Step]_vars

\* a thread released a lock that another thread holds, and the kernel
\* halted with the lock still held by its owner
C8_Witness ==
    /\ halted = "lock_release: lock_do_i_hold"
    /\ \E t, u \in Threads :
           /\ t # u
           /\ pc[t] = "rel_assert" /\ ~cs[t]
           /\ cs[u] /\ DoIHold(u)

\* the places where lock_do_i_hold has just returned to t
DihReturned == {"dih_ret", "rel_assert", "w_assert", "sig_assert", "bc_assert"}

\* C9: whenever lock_do_i_hold returns to t, its value is true iff t's last
\* lock_acquire has returned and t has not started a lock_release since,
\* whatever the other threads are in the middle of; the unguarded reads
\* never give t a wrong answer.
C9_DoIHoldIsExact ==
    \A t \in Threads :
        /\ pc[t] \in DihReturned => (rv[t] <=> cs[t])
        /\ cs[t] => DoIHold(t)
        /\ (pc[t] = "idle" /\ ~cs[t]) => ~DoIHold(t)

\* lock_do_i_hold returned false to t, which read free = false, while u was
\* between the two writes of its lock_release
C9_Witness ==
    \E t, u \in Threads :
        /\ t # u
        /\ pc[t] = "dih_user"
        /\ pc[u] = "rel_set_free"

\* C10: a destroy of an instance with a thread asleep on its wait channel
\* never succeeds: whenever sem_destroy, lock_destroy or cv_destroy takes
\* its instance out of use, no thread was asleep on it (a destroy ends
\* either with the instance out of use or in a fatal assertion).
C10_Step ==
    /\ (live["sem"] /\ ~live'["sem"]) => sem_wchan = {}
    /\ (live["lock"] /\ ~live'["lock"]) => lock_wchan = {}
    /\ \A c \in CVs : (live[c] /\ ~live'[c]) => control_wchan[c] = {}

C10_DestroyWithSleeperIsFatal == [][C10_Step]_vars

\* lock_destroy met a free lock with a thread asleep on lock_wchan
C10_Witness ==
    /\ halted = "lock_destroy: wchan_destroy"
    /\ free = TRUE
    /\ lock_wchan # {}

\* the P calls that have returned
PCompleted == nP - Cardinality({t \in Threads : pc[t] = "P_unspin"})

\* C2 as stated: the count is never negative, completed P calls never
\* exceed initial_count plus V's increments, and the count equals
\* initial_count + V-increments - P-decrements.
C2_Original ==
    /\ sem_count >= 0
    /\ PCompleted <= initial_count + nV
    /\ sem_count = initial_count + nV - nP

\* C2, amended: as stated, except that the equation is modulo 2^WordBits,
\* and exact in every state but the one in which V's increment has wrapped
\* the count to 0 and V's assertion has halted the kernel.
C2_CountAccounting ==
    /\ sem_count \in 0..UINT_MAX
    /\ nP <= initial_count + nV
    /\ PCompleted <= initial_count + nV
    /\ sem_count = (initial_count + nV - nP) % (2^WordBits)
    /\ halted # "V: sem_count > 0" => sem_count = initial_count + nV - nP

\* P calls have taken every unit that sem_create and V supplied, a thread
\* sleeps for the next one
C2_Witness ==
    /\ nV > 0
    /\ nP = initial_count + nV
    /\ sem_count = 0
    /\ sem_wchan # {}
    /\ halted = "none"

\* the threads that are awake inside P and have not yet tested the count:
\* spinning on the guard, woken from the wait channel, or at the loop test
Takers == {t \in Threads : pc[t] \in {"P_spin", "P_woken", "P_test"}}

\* the kernel has not panicked and the semaphore has not been destroyed
SemRunning == halted = "none" /\ live["sem"]

\* no unit is left with only sleepers to take it
C7_NoLostUnit == (sem_count > 0 /\ sem_wchan # {}) => Takers # {}

\* C7: semaphore progress. No reachable state has sem_count > 0, a thread
\* asleep on sem_wchan and no thread awake inside P to take the unit; and
\* under fair scheduling, whenever sem_count > 0 and a thread is asleep in
\* P, one more P call returns (unless a fatal assertion halts the kernel
\* first).
C7_SemProgress ==
    /\ []C7_NoLostUnit
    /\ \A k \in 0..(UINT_MAX + MaxV) :
           (sem_count > 0 /\ sem_wchan # {} /\ PCompleted = k)
               ~> (PCompleted > k \/ ~SemRunning)

\* V woke a sleeper, another thread took the unit first, and a later V
\* supplied a unit while a thread is still asleep
C7_Witness ==
    /\ sem_count > 0
    /\ sem_wchan # {}
    /\ nP > initial_count
    /\ \E t \in Threads : pc[t] = "P_woken"
    /\ halted = "none"

\* t is inside P, lock_acquire or cv_wait
InBlockingOp(t) ==
    \/ pc[t] \in {"P_spin", "P_woken", "P_asleep", "P_test", "P_unspin"}
    \/ pc[t] \in {"acq_spin", "acq_woken", "acq_asleep", "acq_test",
                  "acq_set_user", "acq_set_free", "acq_unspin"}
    \/ InCvWait(t)

\* C11: a blocking operation (P, lock_acquire, cv_wait) called from
\* interrupt context halts on entry, before it changes any state: no step
\* of a thread that is in interrupt context and inside a blocking operation
\* changes a count, a lock's state, a guard or a wait channel.
C11_NoStateChangeInInterrupt ==
    [][\A t \in Threads :
          (t_in_interrupt[t] /\ InBlockingOp(t) /\ pc'[t] # pc[t]) =>
              UNCHANGED <<sem_count, sem_lock, sem_wchan, free, curr_user,
                          lock_lock, lock_wchan, control_spinlock,
                          control_wchan>>]_vars

\* C12: a create whose allocation fails returns NULL with every allocation
\* it made freed: a call of sem_create, lock_create or cv_create that
\* brings no instance into use leaves the live allocations as they were.
C12_FailedCreateFreesAll ==
    [][(ncreate' = ncreate + 1 /\ live' = live) => heap' = heap]_vars

\* t has written one of the two fields of the lock and not yet the other:
\* lock_acquire between lines 212 and 213, lock_release between 226 and 227
BetweenWrites(t) == pc[t] \in {"acq_set_free", "rel_set_free"}

\* C15 as stated: free == true iff curr_user == NULL in every reachable
\* state, the states between the two field writes included.
C15_Original == (free = TRUE) <=> (curr_user = NoThread)

\* C15: free == true iff curr_user == NULL in every state where no thread
\* is between the two field writes of lock_acquire or lock_release; between
\* the writes of lock_acquire curr_user is the caller while free is still
\* true, between those of lock_release curr_user is NULL while free is
\* still false.
C15_LockDataInvariant ==
    /\ (\A t \in Threads : ~BetweenWrites(t)) =>
           ((free = TRUE) <=> (curr_user = NoThread))
    /\ \A t \in Threads :
           /\ pc[t] = "acq_set_free" => (free = TRUE /\ curr_user = t)
           /\ pc[t] = "rel_set_free" => (free = FALSE /\ curr_user = NoThread)

\* a thread has released the lock and is about to wake a sleeper while
\* another thread is reading the fields in lock_do_i_hold
C15_Witness ==
    \E t, u \in Threads :
        /\ pc[t] = "rel_wake"
        /\ lock_wchan # {}
        /\ pc[u] = "dih_user"

\* t is in lock_acquire between the loop test that found the lock free
\* (line 205) and its write of free = false (line 213)
InTestToWrite(t) == pc[t] \in {"acq_set_user", "acq_set_free"}

\* the step reads or writes lock->free on behalf of u: the loop test of
\* lock_acquire, the writes of lock_acquire and lock_release, the read of
\* lock_do_i_hold (line 238)
AccessesFree(u) ==
    /\ pc[u] \in {"acq_test", "acq_set_free", "rel_set_free", "dih_free"}
    /\ pc'[u] # pc[u]

\* C16 as stated: while a thread is between finding the lock free and
\* writing free = false no other thread reads or writes free, and every
\* access to free happens while holding the lock's guard.
C16_Original ==
    [][\A u \in Threads :
          AccessesFree(u) =>
              /\ lock_lock = u
              /\ \A t \in Threads \ {u} : ~InTestToWrite(t)]_vars

\* C16: lock_acquire and lock_release read and write the lock's fields only
\* while holding the lock's guard, the acquirer holds it from its loop test
\* to its write of free = false, and free changes only in a step of the
\* guard's holder; lock_do_i_hold reads free without the guard.
C16_GuardedTransition ==
    /\ [](\A t \in Threads :
             pc[t] \in {"acq_test", "acq_set_user", "acq_set_free",
                        "rel_clr_user", "rel_set_free", "rel_wake"}
                 => lock_lock = t)
    /\ [][free' # free =>
             \E t \in Threads : /\ lock_lock = t
                                /\ BetweenWrites(t)
                                /\ pc'[t] # pc[t]]_vars

\* a thread is between its loop test and its write of free while a second
\* spins on the guard and a third reads free in lock_do_i_hold
C16_Witness ==
    \E t, u, v \in Threads :
        /\ pc[t] = "acq_set_free"
        /\ pc[u] = "acq_spin"
        /\ pc[v] = "dih_free"

\* C17: V on a semaphore whose count is UINT_MAX halts at the assertion of
\* line 131: the step that increments from UINT_MAX halts the kernel, moves
\* no thread and wakes no sleeper, and no V is ever past its assertion with
\* the count at 0, so V never returns with the count wrapped.
C17_OverflowIsFatal ==
    /\ [][(sem_count = UINT_MAX /\ nV' # nV) =>
             /\ halted' = "V: sem_count > 0"
             /\ pc' = pc
             /\ stack' = stack
             /\ sem_wchan' = sem_wchan]_vars
    /\ [](\A t \in Threads : pc[t] = "V_unspin" => sem_count > 0)
    /\ [](halted = "V: sem_count > 0" => \E t \in Threads : pc[t] = "V_body")

\* a V has met sem_count = UINT_MAX with a thread asleep in P: the kernel
\* has halted in it, with the stored count wrapped to 0 and the sleeper
\* still asleep
C17_Witness ==
    /\ halted = "V: sem_count > 0"
    /\ sem_count = 0
    /\ sem_wchan # {}
    /\ \E t \in Threads : pc[t] = "V_body" /\ sem_lock = t

\* the guards t holds
GuardsHeld(t) ==
    {g \in {"sem", "lock"} \cup CVs :
        \/ g = "sem" /\ sem_lock = t
        \/ g = "lock" /\ lock_lock = t
        \/ g \in CVs /\ control_spinlock[g] = t}

\* C18: guard discipline. At every wchan_sleep, wchan_wakeone and
\* wchan_wakeall call the caller holds the guard of the instance whose wait
\* channel it passes; at a wchan_sleep call that is the only guard it
\* holds; a thread asleep on a wait channel is on the channel of the
\* instance it called and holds no guard.
C18_GuardDiscipline ==
    \A t \in Threads :
        /\ pc[t] \in {"P_test", "V_body"} => sem_lock = t
        /\ pc[t] \in {"acq_test", "rel_wake"} => lock_lock = t
        /\ pc[t] \in {"w_sleep", "sig_wake", "bc_wake"} =>
               control_spinlock[cv_arg[t]] = t
        /\ pc[t] = "P_test" => GuardsHeld(t) = {"sem"}
        /\ pc[t] = "acq_test" => GuardsHeld(t) = {"lock"}
        /\ pc[t] = "w_sleep" => GuardsHeld(t) = {cv_arg[t]}
        /\ pc[t] = "P_asleep" => (GuardsHeld(t) = {} /\ t \in sem_wchan)
        /\ pc[t] = "acq_asleep" => (GuardsHeld(t) = {} /\ t \in lock_wchan)
        /\ pc[t] = "w_asleep" =>
               (GuardsHeld(t) = {} /\ t \in control_wchan[cv_arg[t]])

\* one thread is asleep in cv_wait, one is asleep in lock_acquire, and the
\* lock's holder is at the wchan_wakeone of cv_signal
C18_Witness ==
    \E t, u, v \in Threads :
        /\ pc[t] = "w_asleep"
        /\ pc[u] = "acq_asleep"
        /\ pc[v] = "sig_wake"

\* the lock is in use and the kernel is running
LockRunning == Running /\ live["lock"]

\* t is awake inside lock_acquire before its write of free = false: on its
\* way to the guard (also after it was woken), or testing and taking the
\* lock under the guard
InAcquire(t) ==
    pc[t] \in {"acq_spin", "acq_woken", "acq_test", "acq_set_user",
               "acq_set_free"}

\* lock_release has written free = true under the guard and its
\* wchan_wakeone (line 228) is the next statement
WakePending == \E t \in Threads : pc[t] = "rel_wake"

C19_NoStrandedSleeper ==
    (free = TRUE /\ lock_wchan # {} /\ ~WakePending) =>
        \E t \in Threads : InAcquire(t)

SpinsOn(t) ==
    IF pc[t] \in {"P_spin", "P_woken", "V_spin"} THEN "sem"
    ELSE IF pc[t] \in {"acq_spin", "acq_woken", "rel_spin"} THEN "lock"
    ELSE IF pc[t] \in {"w_spin", "w_woken", "sig_spin", "bc_spin"}
    THEN cv_arg[t]
    ELSE "none"

\* t spins on a guard that u holds
WaitsFor(t, u) == SpinsOn(t) # "none" /\ SpinsOn(t) \in GuardsHeld(u)

C20_Nesting ==
    \A t \in Threads :
        /\ Cardinality(GuardsHeld(t)) <= 2
        /\ (SpinsOn(t) # "none" /\ GuardsHeld(t) # {}) =>
               /\ pc[t] = "rel_spin"
               /\ ReleasingInWait(t)
               /\ GuardsHeld(t) = {cv_arg[t]}
        /\ "lock" \in GuardsHeld(t) => SpinsOn(t) = "none"

C20_NoCycle ==
    \A S \in SUBSET Threads :
        S # {} => \E t \in S : \A u \in S : ~WaitsFor(t, u)

\* the kernel is running and the lock and the cv are in use
CvRunning == Running /\ live["lock"] /\ live["cv"]

\* C20: guard deadlock freedom. A thread takes a guard while holding one
\* only in cv_wait, which holds the cv's guard and takes the lock's guard
\* inside lock_release, and never the other way round; no reachable state
\* has a cycle of threads each spinning on a guard held by the next; and
\* under fair scheduling every spinlock_acquire succeeds, that is, no
\* thread spins from some point on forever (unless a fatal assertion halts
\* the kernel or the instance is destroyed first).
C20_GuardDeadlockFreedom ==
    /\ [](C20_Nesting /\ C20_NoCycle)
    /\ \A t \in Threads : []<>(SpinsOn(t) = "none" \/ ~CvRunning)

\* a thread in cv_wait holds the cv's guard and spins on the lock's guard,
\* which a second thread holds, while a third spins on the cv's guard
C20_Witness ==
    \E t, u, v \in Threads :
        /\ pc[t] = "rel_spin"
        /\ control_spinlock[cv_arg[t]] = t
        /\ lock_lock = u
        /\ WaitsFor(v, t)

\* producer and consumer have terminated
BufDone == cpc[Producer] = "done" /\ cpc[Consumer] = "done"

C13_Safe ==
    /\ buf \in 0..cap
    /\ halted = "none"
    /\ ~BufDone => ENABLED BufNext
    /\ BufDone => /\ buf = 0
                  /\ produced = nitems
                  /\ consumed = nitems
                  /\ free = TRUE /\ curr_user = NoThread
                  /\ \A t \in Threads : pc[t] = "idle"

\* C13: bounded buffer. With one producer and one consumer on a buffer of
\* capacity K guarded by one lock and two condition variables, each waiting
\* in a loop and signalling the other condition after each item: the
\* occupancy stays within 0..K, no assertion fails and no deadlock state is
\* reachable, and under fair scheduling both threads terminate, after N
\* items produced and N consumed, with the buffer empty.
C13_BoundedBuffer == []C13_Safe /\ <>BufDone

\* the producer is asleep on not-full with the buffer full and items left
\* to produce, while the consumer, holding the lock, is taking an item
C13_Witness ==
    /\ pc[Producer] = "w_asleep"
    /\ Producer \in control_wchan["cv2"]
    /\ buf = cap
    /\ cap < nitems
    /\ cpc[Consumer] = "move"

\* waiter t is past the re-acquire of its cv_wait and before the start of
\* its own lock_release
PastReacquire(t) ==
    /\ cpc[t] = "unlock"
    /\ cs[t]
    /\ \/ pc[t] \in {"w_ret", "idle"}
       \/ InReleaseAssert(t) /\ ~ReleasingInWait(t)

\* every thread has returned from its last call
ManyDone == \A t \in Threads : cpc[t] = "end" /\ pc[t] = "idle"

C14_Serialized ==
    /\ halted = "none"
    /\ \A t, u \in Waiters :
           (PastReacquire(t) /\ PastReacquire(u)) => t = u

\* C14: broadcast to many waiters. With every waiter asleep in cv_wait on
\* the same cv and lock, after one cv_broadcast followed by the
\* broadcaster's lock_release, each resumed waiter releasing the lock after
\* it returns: under fair scheduling every waiter returns from cv_wait and
\* releases, and no two waiters are past the re-acquire of cv_wait and
\* before their own release together.
C14_BroadcastToMany == []C14_Serialized /\ <>ManyDone

\* one waiter has returned from cv_wait with the lock while another, woken
\* by the same broadcast, found the lock taken and sleeps in lock_acquire
C14_Witness ==
    \E t, u \in Waiters :
        /\ PastReacquire(t) /\ pc[t] = "idle"
        /\ pc[u] = "acq_asleep"
        /\ cpc[Broadcaster] = "end"

====
